---- MODULE Spec2Model ----
(***************************************************************************)
(* ReddiScribe: the LLM task coordinator (src/gui/task_coordinator.py)     *)
(* and the widgets that drive it (src/gui/widgets/writer_widget.py,        *)
(* src/gui/widgets/reader_widget.py).                                      *)
(*                                                                         *)
(* Spec     : the coordinator alone, driven by every sequence of calls of  *)
(*            its five operations, one call at a time.                     *)
(* SpecApp  : the coordinator driven by its callers in the repository:     *)
(*            the writer pipeline (draft, refine chat) with its            *)
(*            GenerationWorker threads, and the reader's translation tasks *)
(*            seen through the coordinator calls they make.                *)
(* SpecObs  : the coordinator with a slot connected to exclusive_finished  *)
(*            that makes a normal request when it is notified.             *)
(* SpecSplit: one streamed refine response routed by _on_refine_token to   *)
(*            the final output and the chat bubble, under every cutting    *)
(*            of the text into tokens.                                     *)
(* SpecRun  : one GenerationWorker.run() with stop() called at any moment  *)
(*            (src/gui/workers.py).                                        *)
(* SpecHist : the conversation history of the refine chat under the       *)
(*            writer's handlers that change it or send it.                 *)
(* SpecReader, SpecReaderLive : the reader's three translation tasks with  *)
(*            their GenerationWorker threads, next to a writer that takes  *)
(*            and releases the exclusive slot; SpecReaderLive adds that    *)
(*            worker threads run on and queued signals are delivered.      *)
(* SpecFetch: one call of PublicJSONAdapter._fetch_json under every        *)
(*            sequence of answers (src/adapters/public_json_adapter.py).   *)
(***************************************************************************)
EXTENDS Integers, Sequences, FiniteSets, TLC

VARIABLES
    normal_tasks,       \* TaskCoordinator._normal_tasks      : set of ids
    exclusive_task,     \* TaskCoordinator._exclusive_task    : id or None
    pending_exclusive,  \* TaskCoordinator._pending_exclusive : <<>> (None) or <<[id, cb]>>
    pending_normal,     \* TaskCoordinator._pending_normal    : sequence of [id, cb]
    last,               \* the coordinator call made by the latest step: operation,
                        \* arguments, return value, signals/callbacks fired, state before
    worker,             \* per worker attribute of the widgets: the GenerationWorker it holds
    inflight,           \* worker signals posted to the GUI thread's event queue and
                        \* not yet delivered, oldest first
    translate_btn,      \* WriterWidget._translate_btn.isEnabled()
    stop_btn,           \* WriterWidget._stop_btn.isEnabled()
    chat_input,         \* RefineChatWidget input enabled
    pending_translate_text, \* WriterWidget._pending_translate_text is set
    observers,          \* connections of exclusive_finished to _on_exclusive_done_start_queued
    dialog,             \* the polish-conflict QMessageBox is open (msg.exec())
    handler,            \* the widget handler run by the latest step, and the
                        \* error key it was called with
    splitter,           \* one streamed refine response: the text the model
                        \* produces, how much of it was delivered as tokens, and
                        \* the writer's routing state and its two sinks
    run,                \* one GenerationWorker.run() on its thread: where it
                        \* is, what the generator will do, _stopped, and the
                        \* signals emitted so far
    history,            \* WriterWidget._refine_messages, the history last sent
                        \* to the refine stage, and what decides when the
                        \* handlers that change them can run
    reader,             \* ReaderWidget: its three GenerationWorker attributes,
                        \* their undelivered signals, and whether
                        \* _current_posts holds posts
    fetch               \* one call of PublicJSONAdapter._fetch_json: max_retries,
                        \* the answers session.get gave so far, and how the
                        \* call ended

coordvars == <<normal_tasks, exclusive_task, pending_exclusive, pending_normal>>
appvars == <<worker, inflight, translate_btn, stop_btn, chat_input,
             pending_translate_text, observers, dialog, handler>>
streamvars == <<splitter, run, history, reader, fetch>>
vars == <<normal_tasks, exclusive_task, pending_exclusive, pending_normal, last,
          worker, inflight, translate_btn, stop_btn, chat_input,
          pending_translate_text, observers, dialog, handler, splitter, run,
          history, reader, fetch>>

----------------------------------------------------------------------------
(* Values *)

\* Python None (for an id, a callback or a return value)
None == "None"

\* pending_normal holds at most MaxPending entries
MaxPending == 2

\* task ids and resume callbacks the callers of Spec draw from; the empty
\* string is a str like any other
NormalIds == {"A", "B"}
ExclusiveIds == {"X", "Y", ""}
Callbacks == {"cb1", "cb2"}

\* Python truthiness of an Optional[str]
Truthy(x) == x # None /\ x # ""

\* the (id, callback) tuple stored in the pending queues
Pair(id, cb) == [id |-> id, cb |-> cb]

\* what a call fires, in order: a Qt signal or a resume callback
Signal(name) == [kind |-> "signal", name |-> name]
Call(cb) == [kind |-> "callback", name |-> cb]

\* the coordinator's four fields as one value
Coord == [normal_tasks |-> normal_tasks,
          exclusive_task |-> exclusive_task,
          pending_exclusive |-> pending_exclusive,
          pending_normal |-> pending_normal]

\* result of one coordinator call: new state, return value, effects fired
Result(c, ret, effects) == [c |-> c, ret |-> ret, effects |-> effects]

\* ids / callbacks of a sequence of pairs, in order
RECURSIVE IdsOf(_)
IdsOf(q) == IF q = <<>> THEN {} ELSE {Head(q).id} \cup IdsOf(Tail(q))

RECURSIVE CallsOf(_)
CallsOf(q) == IF q = <<>> THEN <<>> ELSE <<Call(Head(q).cb)>> \o CallsOf(Tail(q))

----------------------------------------------------------------------------
(* TaskCoordinator *)

is_exclusive_active(c) == c.exclusive_task # None

has_normal_tasks(c) == c.normal_tasks # {}

is_exclusive_pending(c) == c.pending_exclusive # <<>>

\* request_normal without the exclusive check: always grants
request_normal_nocheck(c, task_id, callback) ==
    Result([c EXCEPT !.normal_tasks = @ \cup {task_id}], "True", <<>>)

request_normal(c, task_id, callback) ==
    IF c.exclusive_task # None
    THEN Result([c EXCEPT !.pending_normal = Append(@, Pair(task_id, callback))],
                "False", <<>>)
    ELSE Result([c EXCEPT !.normal_tasks = @ \cup {task_id}], "True", <<>>)

\* request_exclusive that only looks at the exclusive slot, not at normal_tasks
request_exclusive_ignore_normal(c, task_id, callback) ==
    IF c.exclusive_task = None
    THEN Result([c EXCEPT !.exclusive_task = task_id],
                "True", <<Signal("exclusive_started")>>)
    ELSE Result([c EXCEPT !.pending_exclusive = <<Pair(task_id, callback)>>],
                "False", <<>>)

\* request_exclusive that keeps an earlier pending request
request_exclusive_keeps_first(c, task_id, callback) ==
    IF c.normal_tasks = {} /\ c.exclusive_task = None
    THEN Result([c EXCEPT !.exclusive_task = task_id],
                "True", <<Signal("exclusive_started")>>)
    ELSE IF c.pending_exclusive # <<>>
         THEN Result(c, "False", <<>>)
         ELSE Result([c EXCEPT !.pending_exclusive = <<Pair(task_id, callback)>>],
                     "False", <<>>)

request_exclusive(c, task_id, callback) ==
    IF c.normal_tasks = {} /\ c.exclusive_task = None
    THEN Result([c EXCEPT !.exclusive_task = task_id],
                "True", <<Signal("exclusive_started")>>)
    ELSE Result([c EXCEPT !.pending_exclusive = <<Pair(task_id, callback)>>],
                "False", <<>>)

\* finish_normal that promotes the pending exclusive task without calling it
finish_normal_nocall(c, task_id) ==
    LET remaining == c.normal_tasks \ {task_id}
        c1 == [c EXCEPT !.normal_tasks = remaining]
    IN  IF remaining = {} /\ c.pending_exclusive # <<>>
        THEN Result([c1 EXCEPT !.pending_exclusive = <<>>,
                               !.exclusive_task = c.pending_exclusive[1].id],
                    None, <<Signal("exclusive_started")>>)
        ELSE Result(c1, None, <<>>)

finish_normal(c, task_id) ==
    LET remaining == c.normal_tasks \ {task_id}
        c1 == [c EXCEPT !.normal_tasks = remaining]
    IN  IF remaining = {} /\ c.pending_exclusive # <<>>
        THEN Result([c1 EXCEPT !.pending_exclusive = <<>>,
                               !.exclusive_task = c.pending_exclusive[1].id],
                    None,
                    <<Signal("exclusive_started"), Call(c.pending_exclusive[1].cb)>>)
        ELSE Result(c1, None, <<>>)

\* "Resume all pending normal tasks": the loop shared by finish_exclusive
\* and cancel_exclusive, run after exclusive_task was cleared
Drain(c) ==
    Result([c EXCEPT !.exclusive_task = None,
                     !.pending_normal = <<>>,
                     !.normal_tasks = @ \cup IdsOf(c.pending_normal)],
           None,
           <<Signal("exclusive_finished")>> \o CallsOf(c.pending_normal))

\* finish_exclusive that releases one queued normal task per call
finish_exclusive_one(c) ==
    IF c.pending_normal = <<>>
    THEN Result([c EXCEPT !.exclusive_task = None], None,
                <<Signal("exclusive_finished")>>)
    ELSE Result([c EXCEPT !.exclusive_task = None,
                          !.pending_normal = Tail(@),
                          !.normal_tasks = @ \cup {Head(c.pending_normal).id}],
                None,
                <<Signal("exclusive_finished"), Call(Head(c.pending_normal).cb)>>)

finish_exclusive(c) == Drain(c)

\* cancel_exclusive that clears the slot but forgets the queued normal tasks
cancel_exclusive_nodrain(c) ==
    IF Truthy(c.exclusive_task)
    THEN Result([c EXCEPT !.exclusive_task = None], None,
                <<Signal("exclusive_finished")>>)
    ELSE IF c.pending_exclusive # <<>>
         THEN Result([c EXCEPT !.pending_exclusive = <<>>], None, <<>>)
         ELSE Result(c, None, <<>>)

\* cancel_exclusive that treats a pending request like a running one
cancel_exclusive_loud(c) ==
    IF Truthy(c.exclusive_task)
    THEN Drain(c)
    ELSE IF c.pending_exclusive # <<>>
         THEN Result([c EXCEPT !.pending_exclusive = <<>>], None,
                     <<Signal("exclusive_finished")>>)
         ELSE Result(c, None, <<>>)

cancel_exclusive(c) ==
    IF Truthy(c.exclusive_task)
    THEN Drain(c)
    ELSE IF c.pending_exclusive # <<>>
         THEN Result([c EXCEPT !.pending_exclusive = <<>>], None, <<>>)
         ELSE Result(c, None, <<>>)

(* exclusive_finished.emit() runs the connected slots before the call goes on;
   a slot may itself call the coordinator *)

\* a request_normal(id) made from inside a signal emission was granted
Granted(id) == [kind |-> "granted", name |-> id]

\* finish_exclusive while a slot connected to exclusive_finished calls
\* request_normal(task_id, callback): the slot runs between the clearing of
\* exclusive_task and the copy of pending_normal
finish_exclusive_notifying(c, task_id, callback) ==
    LET c1 == [c EXCEPT !.exclusive_task = None]
        r == request_normal(c1, task_id, callback)
        pending == r.c.pending_normal
    IN  Result([r.c EXCEPT !.pending_normal = <<>>,
                           !.normal_tasks = @ \cup IdsOf(pending)],
               None,
               <<Signal("exclusive_finished")>>
                   \o (IF r.ret = "True" THEN <<Granted(task_id)>> ELSE <<>>)
                   \o CallsOf(pending))

\* cancel_exclusive with the same slot connected
cancel_exclusive_notifying(c, task_id, callback) ==
    IF Truthy(c.exclusive_task)
    THEN finish_exclusive_notifying(c, task_id, callback)
    ELSE cancel_exclusive(c)

----------------------------------------------------------------------------
(* One coordinator call as a step *)

Apply(op, id, cb, r) ==
    /\ normal_tasks' = r.c.normal_tasks
    /\ exclusive_task' = r.c.exclusive_task
    /\ pending_exclusive' = r.c.pending_exclusive
    /\ pending_normal' = r.c.pending_normal
    /\ last' = [op |-> op, id |-> id, cb |-> cb, ret |-> r.ret,
                effects |-> r.effects, pre |-> Coord]
    /\ UNCHANGED appvars
    /\ UNCHANGED streamvars

\* no coordinator call (yet, or in the latest step)
NoCall == [op |-> "none", id |-> None, cb |-> None, ret |-> None,
           effects |-> <<>>,
           pre |-> [normal_tasks |-> {}, exclusive_task |-> None,
                    pending_exclusive |-> <<>>, pending_normal |-> <<>>]]

\* worker attributes of WriterWidget: _draft_worker, _refine_worker
Roles == {"draft", "refine"}

\* the reader's coordinated tasks: title, post body and comment translation
ReaderRoles == {"title", "gen", "comment"}

\* the i18n keys a GenerationWorker reports a failure with: service
\* unavailable, model not found, timeout
ErrorKeys == {"errors.ollama_not_running", "errors.model_not_found", "errors.llm_timeout"}

\* the terminal signals of a GenerationWorker: finished_signal, or
\* error_occurred; the key an error_occurred event carries is read by no one
\* before its slot runs, and is drawn there
Kinds == {"finished", "error"}

\* a GenerationWorker: st is "none" (attribute is None), "new" (configured,
\* not started), "running" (isRunning()) or "done"; stopped is _stopped
NoWorker == [st |-> "none", stopped |-> FALSE]

\* the writer's routing state when a first refine response starts
\* (_start_refine_chat) or a follow-up starts (_on_refine_message followed
\* by _do_start_refine, which opens the chat bubble); texts are sequences of
\* characters; bubble is <<text>> for the response's chat bubble and its
\* text, or <<>> when there is no bubble; suggestion (the translation
\* bubble) and pending_translation (None or a text) likewise; notices counts
\* the "applied" messages added to the chat
StartRefine(first) ==
    [is_first_refine |-> first, refine_started |-> FALSE,
     token_buffer |-> <<>>, final_output |-> <<>>,
     chat_streamed_content |-> <<>>,
     streaming_label |-> ~first,
     bubble |-> IF first THEN <<>> ELSE << <<>> >>,
     suggestion |-> <<>>,
     pending_translation |-> <<>>, apply_btn |-> FALSE, notices |-> 0]

\* no refine response is being streamed; h is the handler run by the latest
\* step
NoStream == [text |-> <<>>, pos |-> 0, done |-> FALSE, unit |-> TRUE,
             h |-> "none", p |-> StartRefine(TRUE)]

\* no GenerationWorker.run() is followed
NoRun == [pc |-> "none", configured |-> FALSE, stopped |-> FALSE,
          observed |-> FALSE, yields |-> 0, ends |-> "StopIteration",
          produced |-> 0, full_text |-> <<>>, emitted |-> <<>>]

\* the refine conversation before the first pipeline run; a message is its
\* role and the serial number of its content; busy: a refine worker's completion or error is
\* still to be delivered; exclusive: the writer holds the exclusive slot;
\* queued: a translation waits for the exclusive task to finish; h is the
\* handler run by the latest step
NoHistory ==
    [messages |-> <<>>, input_enabled |-> FALSE,
     translate_btn |-> TRUE, stop_btn |-> FALSE, drafting |-> FALSE,
     busy |-> FALSE, exclusive |-> FALSE, queued |-> FALSE, next |-> 1,
     h |-> "none"]

\* nothing was started yet
Idle ==
    /\ normal_tasks = {}
    /\ exclusive_task = None
    /\ pending_exclusive = <<>>
    /\ pending_normal = <<>>
    /\ last = NoCall
    /\ worker = [r \in Roles |-> NoWorker]
    /\ inflight = <<>>
    /\ translate_btn = TRUE
    /\ stop_btn = FALSE
    /\ chat_input = FALSE
    /\ pending_translate_text = FALSE
    /\ observers = 0
    /\ dialog = FALSE
    /\ handler = [name |-> "none", arg |-> None]

\* the reader before anything was fetched: no worker, no post
NoReader ==
    [worker |-> [r \in ReaderRoles |-> NoWorker], inflight |-> <<>>,
     posts |-> FALSE, fetching |-> FALSE, h |-> "none"]

\* no call of _fetch_json is followed
NoFetch == [max_retries |-> 0, answers |-> <<>>, outcome |-> "none",
            result |-> None]

Init ==
    /\ Idle
    /\ splitter = NoStream
    /\ run = NoRun
    /\ history = NoHistory
    /\ reader = NoReader
    /\ fetch = NoFetch

RequestNormal ==
    \E id \in NormalIds, cb \in Callbacks :
        /\ exclusive_task # None => Len(pending_normal) < MaxPending
        /\ Apply("request_normal", id, cb, request_normal(Coord, id, cb))

RequestExclusive ==
    \E id \in ExclusiveIds, cb \in Callbacks :
        Apply("request_exclusive", id, cb, request_exclusive(Coord, id, cb))

FinishNormal ==
    \E id \in NormalIds :
        Apply("finish_normal", id, None, finish_normal(Coord, id))

FinishExclusive ==
    Apply("finish_exclusive", None, None, finish_exclusive(Coord))

CancelExclusive ==
    Apply("cancel_exclusive", None, None, cancel_exclusive(Coord))

Next ==
    \/ RequestNormal
    \/ RequestExclusive
    \/ FinishNormal
    \/ FinishExclusive
    \/ CancelExclusive

Spec == Init /\ [][Next]_vars

(* The coordinator with a slot connected to exclusive_finished that makes a
   normal request when it is notified *)

FinishExclusiveNotifies ==
    \E id \in NormalIds, cb \in Callbacks :
        Apply("finish_exclusive", None, None,
              finish_exclusive_notifying(Coord, id, cb))

CancelExclusiveNotifies ==
    \E id \in NormalIds, cb \in Callbacks :
        Apply("cancel_exclusive", None, None,
              cancel_exclusive_notifying(Coord, id, cb))

NextObs ==
    \/ RequestNormal
    \/ RequestExclusive
    \/ FinishNormal
    \/ FinishExclusive
    \/ CancelExclusive
    \/ FinishExclusiveNotifies
    \/ CancelExclusiveNotifies

SpecObs == Init /\ [][NextObs]_vars


----------------------------------------------------------------------------
(* The widgets: state threaded through a handler *)

\* at most MaxInflight undelivered worker signals in the event queue
MaxInflight == 1
\* at most MaxObservers connections of the one-shot observer
MaxObservers == 2

\* the state a handler starts from; it has made no coordinator call yet
State ==
    [c |-> Coord, last |-> NoCall, worker |-> worker,
     inflight |-> inflight, translate_btn |-> translate_btn,
     stop_btn |-> stop_btn, chat_input |-> chat_input,
     pending_translate_text |-> pending_translate_text,
     observers |-> observers, dialog |-> dialog, handler |-> handler]

\* task ids the widgets pass to the coordinator
TaskId(role) ==
    CASE role = "title" -> "reader_title_translate"
      [] role = "gen" -> "reader_translation"
      [] role = "comment" -> "reader_comment_translate"
      [] role = "refine" -> "writer_refine"

(* GenerationWorker, seen from the GUI thread *)

isRunning(w) == w.st = "running"

stop(w) == [w EXCEPT !.stopped = TRUE]

\* QThread.start(): runs run() unless the thread is running already
start(w) == IF w.st \in {"new", "done"} THEN [w EXCEPT !.st = "running"] ELSE w

\* GenerationWorker() followed by configure()
NewWorker == [st |-> "new", stopped |-> FALSE]

\* "if worker and worker.isRunning(): worker.stop(); worker.wait(2000)"
StopIfRunning(s, r) ==
    IF isRunning(s.worker[r]) THEN [s EXCEPT !.worker[r] = stop(@)] ELSE s

\* "self._x_worker = GenerationWorker()" after StopIfRunning: the attribute
\* gets a new worker; the replaced one, if still running, has _stopped set
\* and emits no further signal
Replace(s, r) == [s EXCEPT !.worker[r] = NewWorker]

StartWorker(s, r) == [s EXCEPT !.worker[r] = start(@)]

(* WriterWidget: the parts that make no coordinator call *)

_start_draft(s) ==
    StartWorker(Replace(StopIfRunning(s, "draft"), "draft"), "draft")

_start_translation_pipeline(s) ==
    _start_draft([s EXCEPT !.chat_input = FALSE,
                           !.translate_btn = FALSE,
                           !.stop_btn = TRUE])

\* _on_exclusive_done_start_queued that stays connected after it was called
_on_exclusive_done_start_queued_stays(s) ==
    IF s.pending_translate_text
    THEN _start_translation_pipeline([s EXCEPT !.pending_translate_text = FALSE])
    ELSE s

_on_exclusive_done_start_queued(s) ==
    LET s1 == [s EXCEPT !.observers = @ - 1]
    IN  IF s1.pending_translate_text
        THEN _start_translation_pipeline([s1 EXCEPT !.pending_translate_text = FALSE])
        ELSE s1

_do_start_refine(s) == StartWorker(s, "refine")

(* Signals and callbacks fired by a coordinator call *)

\* exclusive_finished.emit(): every connection of the observer is called
RECURSIVE EmitExclusiveFinished(_, _)
EmitExclusiveFinished(s, n) ==
    IF n = 0 THEN s
    ELSE EmitExclusiveFinished(_on_exclusive_done_start_queued(s), n - 1)

RunEffect(s, e) ==
    IF e.kind = "signal"
    THEN IF e.name = "exclusive_finished"
         THEN EmitExclusiveFinished(s, s.observers)
         ELSE s
    ELSE IF e.name = "_do_start_refine"
         THEN _do_start_refine(s)
         ELSE s  \* a do_start closure of the reader: starts a reader worker

RECURSIVE RunEffects(_, _)
RunEffects(s, effects) ==
    IF effects = <<>> THEN s
    ELSE RunEffects(RunEffect(s, Head(effects)), Tail(effects))

\* a coordinator call made by a handler: new coordinator state, then the
\* signals and callbacks of the call in the order fired
CoordCall(s, op, id, cb, r) ==
    RunEffects([s EXCEPT !.c = r.c,
                         !.last = [op |-> op, id |-> id, cb |-> cb,
                                   ret |-> r.ret, effects |-> r.effects,
                                   pre |-> s.c]],
               r.effects)

(* WriterWidget *)

\* "if self._coordinator.is_exclusive_active(): self._coordinator.finish_exclusive()"
FinishExclusiveIfActive(s) ==
    IF is_exclusive_active(s.c)
    THEN CoordCall(s, "finish_exclusive", None, None, finish_exclusive(s.c))
    ELSE s

_on_all_done(s) ==
    FinishExclusiveIfActive([s EXCEPT !.translate_btn = TRUE, !.stop_btn = FALSE])

\* _on_stop that stops the workers and resets the buttons but leaves the
\* exclusive slot alone
_on_stop_keeps_slot(s) ==
    [StopIfRunning(StopIfRunning(s, "draft"), "refine")
        EXCEPT !.translate_btn = TRUE, !.stop_btn = FALSE]

_on_stop(s) ==
    _on_all_done(StopIfRunning(StopIfRunning(s, "draft"), "refine"))

_on_error(s) == _on_all_done(s)

\* _send_refine_request that starts the worker whatever request_exclusive returns
_send_refine_request_starts_anyway(s) ==
    LET s1 == Replace(StopIfRunning(s, "refine"), "refine")
        s2 == CoordCall(s1, "request_exclusive", "writer_refine", "_do_start_refine",
                        request_exclusive(s1.c, "writer_refine", "_do_start_refine"))
    IN  _do_start_refine(s2)

_send_refine_request(s) ==
    LET s1 == Replace(StopIfRunning(s, "refine"), "refine")
        s2 == CoordCall(s1, "request_exclusive", "writer_refine", "_do_start_refine",
                        request_exclusive(s1.c, "writer_refine", "_do_start_refine"))
    IN  IF s2.last.ret = "True" THEN _do_start_refine(s2) ELSE s2

_start_refine_chat(s) == _send_refine_request([s EXCEPT !.chat_input = FALSE])

\* draft_only is self._draft_only_cb.isChecked(), a box the user ticks at will
_on_draft_finished(s, draft_only) ==
    IF draft_only THEN _on_all_done(s) ELSE _start_refine_chat(s)

_on_refine_message(s) == _send_refine_request([s EXCEPT !.chat_input = FALSE])

_on_refine_finished(s) ==
    FinishExclusiveIfActive([s EXCEPT !.chat_input = TRUE,
                                      !.translate_btn = TRUE,
                                      !.stop_btn = FALSE])

\* _on_refine_error without the release of the exclusive slot
_on_refine_error_keeps_slot(s) == [s EXCEPT !.chat_input = TRUE]

_on_refine_error(s) ==
    FinishExclusiveIfActive([s EXCEPT !.chat_input = TRUE])

\* the button the user clicks in the conflict dialog
_show_polish_conflict_dialog(s, choice) ==
    IF choice = "cancel"
    THEN _start_translation_pipeline(_on_stop(s))
    ELSE [s EXCEPT !.pending_translate_text = TRUE, !.observers = @ + 1]

(* ReaderWidget, as far as the coordinator sees it *)

\* the do_start closure passed with a reader task
DoStart(role) ==
    CASE role = "title" -> "do_start_title"
      [] role = "gen" -> "do_start_gen"
      [] role = "comment" -> "do_start_comment"

\* _start_title_translation, _generate_translation,
\* _translate_next_comments_batch: "if not request_normal(task_id, do_start):
\* return; do_start()"
ReaderRequests(s, role) ==
    CoordCall(s, "request_normal", TaskId(role), DoStart(role),
              request_normal(s.c, TaskId(role), DoStart(role)))

\* _on_titles_translated / _on_title_translate_error, _on_translation_finished /
\* _on_translation_error, _on_comments_translated / _on_comment_translate_error
ReaderTaskEnded(s, role) ==
    CoordCall(s, "finish_normal", TaskId(role), None, finish_normal(s.c, TaskId(role)))

----------------------------------------------------------------------------
(* The application: one step per handler run or worker-thread event *)

WithinBounds(s) ==
    /\ Len(s.c.pending_normal) <= MaxPending
    /\ Len(s.inflight) <= MaxInflight
    /\ s.observers <= MaxObservers

\* the state after handler h, called with error key arg (or None), ran to its end
SetState(s, h, arg) ==
    /\ WithinBounds(s)
    /\ normal_tasks' = s.c.normal_tasks
    /\ exclusive_task' = s.c.exclusive_task
    /\ pending_exclusive' = s.c.pending_exclusive
    /\ pending_normal' = s.c.pending_normal
    /\ last' = s.last
    /\ worker' = s.worker
    /\ inflight' = s.inflight
    /\ translate_btn' = s.translate_btn
    /\ stop_btn' = s.stop_btn
    /\ chat_input' = s.chat_input
    /\ pending_translate_text' = s.pending_translate_text
    /\ observers' = s.observers
    /\ dialog' = s.dialog
    /\ handler' = [name |-> h, arg |-> arg]
    /\ UNCHANGED streamvars

(* the user, writer tab; a modal dialog blocks the main window *)

\* _on_translate up to msg.exec() of the conflict dialog, or to its end
OnTranslate ==
    /\ ~dialog
    /\ translate_btn
    /\ IF is_exclusive_active(Coord)
       THEN SetState([State EXCEPT !.dialog = TRUE], "_on_translate", None)
       ELSE SetState(_start_translation_pipeline(State), "_on_translate", None)

\* _show_polish_conflict_dialog from the return of msg.exec()
ConflictDialogChoice ==
    /\ dialog
    /\ \E choice \in {"cancel", "wait"} :
        SetState(_show_polish_conflict_dialog([State EXCEPT !.dialog = FALSE], choice),
                 "_show_polish_conflict_dialog", None)

OnStop ==
    /\ ~dialog
    /\ stop_btn
    /\ SetState(_on_stop(State), "_on_stop", None)

OnRefineMessage ==
    /\ ~dialog
    /\ chat_input
    /\ SetState(_on_refine_message(State), "_on_refine_message", None)

(* the reader tab *)

\* a title, post body or comment translation is requested
ReaderRequest ==
    \E role \in ReaderRoles :
        /\ exclusive_task # None => Len(pending_normal) < MaxPending
        /\ SetState(ReaderRequests(State, role), "reader_request", None)

\* the worker of a granted reader task ends and its slot releases the task
ReaderEnd ==
    \E role \in ReaderRoles :
        /\ TaskId(role) \in normal_tasks
        /\ SetState(ReaderTaskEnded(State, role), "reader_task_ended", None)

(* GenerationWorker.run on its thread *)

\* the stream is exhausted (finished_signal) or raises (error_occurred)
WorkerEmits ==
    \E r \in Roles, k \in Kinds :
        /\ isRunning(worker[r])
        /\ ~worker[r].stopped
        /\ SetState([State EXCEPT !.worker[r].st = "done",
                                  !.inflight = Append(@, <<r, k>>)],
                    "none", None)

\* the thread sees _stopped and returns without a signal
WorkerExits ==
    \E r \in Roles :
        /\ isRunning(worker[r])
        /\ worker[r].stopped
        /\ SetState([State EXCEPT !.worker[r].st = "done"], "none", None)

(* delivery of a worker signal to its slot on the GUI thread *)

SlotName(r, k) ==
    CASE r = "draft" /\ k = "finished" -> "_on_draft_finished"
      [] r = "draft" /\ k = "error" -> "_on_error"
      [] r = "refine" /\ k = "finished" -> "_on_refine_finished"
      [] r = "refine" /\ k = "error" -> "_on_refine_error"

Slot(s, r, k, draft_only) ==
    CASE r = "draft" /\ k = "finished" -> _on_draft_finished(s, draft_only)
      [] r = "draft" /\ k = "error" -> _on_error(s)
      [] r = "refine" /\ k = "finished" -> _on_refine_finished(s)
      [] r = "refine" /\ k = "error" -> _on_refine_error(s)

Deliver ==
    \E draft_only \in BOOLEAN, key \in ErrorKeys \cup {None} :
        /\ inflight # <<>>
        /\ (key # None) <=> (Head(inflight)[2] = "error")
        /\ draft_only => Head(inflight) = <<"draft", "finished">>
        /\ LET r == Head(inflight)[1]
               k == Head(inflight)[2]
           IN  SetState(Slot([State EXCEPT !.inflight = Tail(@)], r, k, draft_only),
                        SlotName(r, k), key)

NextApp ==
    \/ OnTranslate
    \/ ConflictDialogChoice
    \/ OnStop
    \/ OnRefineMessage
    \/ ReaderRequest
    \/ ReaderEnd
    \/ WorkerEmits
    \/ WorkerExits
    \/ Deliver

SpecApp == Init /\ [][NextApp]_vars

----------------------------------------------------------------------------
(* The token splitter of the refine chat: WriterWidget._on_refine_token and
   the flush in _on_refine_finished.  A str is a sequence of characters. *)

\* the characters a response is made of
Chars == {"a", "%", "\n"}

\* a response has at most MaxText characters
MaxText == 7

Delimiter == <<"%", "%", "%">>

\* str.isspace() of one character
isspace(ch) == ch \in {" ", "\n", "\t", "\r"}

\* str.rstrip(), str.lstrip(), str.strip() without argument
RECURSIVE rstrip(_)
rstrip(t) ==
    IF t # <<>> /\ isspace(t[Len(t)]) THEN rstrip(SubSeq(t, 1, Len(t) - 1)) ELSE t

RECURSIVE lstrip(_)
lstrip(t) ==
    IF t # <<>> /\ isspace(t[1]) THEN lstrip(Tail(t)) ELSE t

strip(t) == lstrip(rstrip(t))

\* the 0-based positions at which "%%%" starts in t
Occurrences(t) == {i \in 0..(Len(t) - 3) : SubSeq(t, i + 1, i + 3) = Delimiter}

\* '"%%%" in t' and 't.index("%%%")'
Contains(t) == Occurrences(t) # {}
index(t) == CHOOSE i \in Occurrences(t) : \A j \in Occurrences(t) : i <= j

\* RefineChatWidget.start_streaming_ai_message
start_streaming_ai_message(p) ==
    [p EXCEPT !.streaming_label = TRUE, !.bubble = << <<>> >>]

\* RefineChatWidget.append_to_streaming_message followed by
\* "self._chat_streamed_content += token"
append_to_chat(p, token) ==
    [p EXCEPT !.bubble = IF p.streaming_label THEN <<@[1] \o token>> ELSE @,
              !.chat_streamed_content = @ \o token]

\* RefineChatWidget.finish_streaming_message(final_text)
finish_streaming_message(p, final_text) ==
    [p EXCEPT !.bubble = IF p.streaming_label
                         THEN (IF final_text # <<>> THEN <<final_text>> ELSE <<>>)
                         ELSE @,
              !.streaming_label = FALSE]

\* a buffer written out whole once it is longer than 5 characters
hold_back_nothing(p, buf) ==
    IF Len(buf) > 5
    THEN [p EXCEPT !.final_output = @ \o buf, !.token_buffer = <<>>]
    ELSE [p EXCEPT !.token_buffer = buf]

\* lines 503-510: a buffer without "%%%" that is longer than 5 characters is
\* written to the final output except for its last 3 characters
hold_back(p, buf) ==
    IF Len(buf) > 5
    THEN [p EXCEPT !.final_output = @ \o SubSeq(buf, 1, Len(buf) - 3),
                   !.token_buffer = SubSeq(buf, Len(buf) - 2, Len(buf))]
    ELSE [p EXCEPT !.token_buffer = buf]

\* the split of a first response at the last "%%%" in the buffer
_on_refine_token_splits_at_last(p, token) ==
    IF p.refine_started THEN append_to_chat(p, token)
    ELSE LET buf == p.token_buffer \o token
         IN  IF Contains(buf)
             THEN LET idx == CHOOSE i \in Occurrences(buf) :
                                 \A j \in Occurrences(buf) : j <= i
                      before == rstrip(SubSeq(buf, 1, idx))
                      after == lstrip(SubSeq(buf, idx + 4, Len(buf)))
                      p1 == [p EXCEPT !.final_output = @ \o before]
                      p2 == start_streaming_ai_message(p1)
                      p3 == IF after # <<>> THEN append_to_chat(p2, after) ELSE p2
                  IN  [p3 EXCEPT !.token_buffer = <<>>, !.refine_started = TRUE]
             ELSE hold_back(p, buf)

\* _on_refine_token for a first response, lines 476-510: the split at "%%%"
_on_refine_token_first_response(p, token) ==
    IF p.refine_started THEN append_to_chat(p, token)
    ELSE LET buf == p.token_buffer \o token
         IN  IF Contains(buf)
             THEN LET idx == index(buf)
                      before == rstrip(SubSeq(buf, 1, idx))
                      after == lstrip(SubSeq(buf, idx + 4, Len(buf)))
                      p1 == [p EXCEPT !.final_output = @ \o before]
                      p2 == start_streaming_ai_message(p1)
                      p3 == IF after # <<>> THEN append_to_chat(p2, after) ELSE p2
                  IN  [p3 EXCEPT !.token_buffer = <<>>, !.refine_started = TRUE]
             ELSE hold_back(p, buf)

\* _on_refine_token that splits every response, follow-ups too
_on_refine_token_always_routes(p, token) ==
    _on_refine_token_first_response(p, token)

_on_refine_token(p, token) ==
    IF ~p.is_first_refine THEN append_to_chat(p, token)
    ELSE _on_refine_token_first_response(p, token)

\* _on_translation_suggested, the slot of translation_suggested
_on_translation_suggested(p, translation) ==
    [p EXCEPT !.pending_translation = <<translation>>, !.apply_btn = TRUE]

\* RefineChatWidget.add_translation_suggestion: the translation bubble, then
\* translation_suggested.emit, which runs its slot at once
add_translation_suggestion(p, translation) ==
    _on_translation_suggested([p EXCEPT !.suggestion = <<translation>>],
                              translation)

\* _on_apply that leaves the suggestion pending
_on_apply_keeps_pending(p) ==
    IF p.pending_translation # <<>> /\ p.pending_translation[1] # <<>>
    THEN [p EXCEPT !.final_output = p.pending_translation[1],
                   !.notices = @ + 1]
    ELSE p

\* _on_apply: "if self._pending_translation" is false for None and for ""
_on_apply(p) ==
    IF p.pending_translation # <<>> /\ p.pending_translation[1] # <<>>
    THEN [p EXCEPT !.final_output = p.pending_translation[1],
                   !.pending_translation = <<>>,
                   !.apply_btn = FALSE,
                   !.notices = @ + 1]
    ELSE p

\* _on_refine_finished(full_text) without the flush of the buffer
on_refine_finished_text_noflush(p, full_text) ==
    finish_streaming_message(p, strip(p.chat_streamed_content))

\* _on_refine_finished(full_text), lines 548-571: the flush of the buffer, the
\* end of the chat bubble and the suggestion of a follow-up
on_refine_finished_text(p, full_text) ==
    LET p1 == IF p.token_buffer # <<>> /\ p.is_first_refine /\ ~p.refine_started
              THEN [p EXCEPT !.final_output = @ \o p.token_buffer,
                             !.token_buffer = <<>>]
              ELSE p
        p2 == finish_streaming_message(p1, strip(p1.chat_streamed_content))
    IN  IF ~p2.is_first_refine /\ Contains(full_text)
             /\ strip(SubSeq(full_text, 1, index(full_text))) # <<>>
        THEN add_translation_suggestion(
                 p2, strip(SubSeq(full_text, 1, index(full_text))))
        ELSE p2

\* every response text of at most MaxText characters
Texts == UNION {[1..n -> Chars] : n \in 0..MaxText}

\* what the final output holds when a follow-up starts, and the suggestion
\* that is pending then: None or the unapplied one of an earlier follow-up
Sinks == {<<>>, <<"a">>}
Suggestions == {<<>>, << <<"a", "a">> >>}

\* a first response starts after _start_translation_pipeline emptied the
\* final output and the pending suggestion; a follow-up finds what the
\* turns before it left there
InitSplit ==
    /\ Idle
    /\ \E t \in Texts, first \in BOOLEAN, out \in Sinks, sug \in Suggestions :
          /\ first => (out = <<>> /\ sug = <<>>)
          /\ splitter = [text |-> t, pos |-> 0, done |-> FALSE, unit |-> TRUE,
                         h |-> "none",
                         p |-> [StartRefine(first) EXCEPT
                                   !.final_output = out,
                                   !.pending_translation = sug,
                                   !.apply_btn = (sug # <<>>)]]
    /\ run = NoRun
    /\ history = NoHistory
    /\ reader = NoReader
    /\ fetch = NoFetch

\* token_received: the next fragment of the response, of any length, reaches
\* _on_refine_token; unit records that every fragment so far was one character
TokenReceived ==
    /\ ~splitter.done
    /\ \E n \in 1..MaxText :
          /\ splitter.pos + n <= Len(splitter.text)
          /\ splitter' =
                [splitter EXCEPT
                    !.pos = @ + n,
                    !.unit = @ /\ n = 1,
                    !.h = "_on_refine_token",
                    !.p = _on_refine_token(@, SubSeq(splitter.text,
                                                     splitter.pos + 1,
                                                     splitter.pos + n))]
    /\ UNCHANGED <<coordvars, last, appvars, run, history, reader, fetch>>

\* finished_signal(full_text) after the last fragment
StreamFinished ==
    /\ ~splitter.done
    /\ splitter.pos = Len(splitter.text)
    /\ splitter' = [splitter EXCEPT
                       !.done = TRUE,
                       !.h = "_on_refine_finished",
                       !.p = on_refine_finished_text(@, splitter.text)]
    /\ UNCHANGED <<coordvars, last, appvars, run, history, reader, fetch>>

\* _on_apply is called, at any moment of the turn and after it
ApplyClicked ==
    /\ splitter' = [splitter EXCEPT !.h = "_on_apply", !.p = _on_apply(@)]
    /\ UNCHANGED <<coordvars, last, appvars, run, history, reader, fetch>>

NextSplit ==
    \/ TokenReceived
    \/ StreamFinished
    \/ ApplyClicked

SpecSplit == InitSplit /\ [][NextSplit]_vars

----------------------------------------------------------------------------
(* GenerationWorker.run on the worker thread, with stop() called from the GUI
   thread at any moment.  The generator yields a number of tokens and then
   ends or raises; token i is the i-th token it yields; full_text is the
   sequence of the tokens accumulated, which stands for their
   concatenation. *)

\* a generator yields at most MaxTokens tokens
MaxTokens == 3

\* how a generator ends: exhausted, or raising one of these exceptions
Endings == {"StopIteration", "OllamaNotRunningError", "ModelNotFoundError",
            "LLMTimeoutError", "ReddiScribeError", "Exception"}

\* the signals of a GenerationWorker
Emit(sig, arg) == [sig |-> sig, arg |-> arg]

_map_error_to_i18n_key(e) ==
    CASE e = "OllamaNotRunningError" -> "errors.ollama_not_running"
      [] e = "ModelNotFoundError" -> "errors.model_not_found"
      [] e = "LLMTimeoutError" -> "errors.llm_timeout"
      [] OTHER -> "errors.ollama_not_running"

\* run() without the return after the error of an unconfigured worker
run_begin_falls_through(r) ==
    IF ~r.configured
    THEN [r EXCEPT !.pc = "next",
                   !.emitted = Append(@, Emit("error_occurred", "errors.llm_timeout"))]
    ELSE [r EXCEPT !.pc = "next"]

\* run() up to the first request to the generator
run_begin(r) ==
    IF ~r.configured
    THEN [r EXCEPT !.pc = "done",
                   !.emitted = Append(@, Emit("error_occurred", "errors.llm_timeout"))]
    ELSE [r EXCEPT !.pc = "next"]

\* the loop body that forwards the token before it looks at _stopped
run_token_forwards_first(r) ==
    LET r1 == [r EXCEPT !.full_text = Append(@, r.produced),
                        !.emitted = Append(@, Emit("token_received", r.produced))]
    IN  IF r.stopped
        THEN [r1 EXCEPT !.pc = "done", !.observed = TRUE]
        ELSE [r1 EXCEPT !.pc = "next"]

\* the loop body, for the token the generator has just yielded
run_token(r) ==
    IF r.stopped
    THEN [r EXCEPT !.pc = "done", !.observed = TRUE]
    ELSE [r EXCEPT !.pc = "next",
                   !.full_text = Append(@, r.produced),
                   !.emitted = Append(@, Emit("token_received", r.produced))]

\* the completion that carries the last token in place of full_text
run_end_last_token(r) ==
    IF ~r.stopped
    THEN [r EXCEPT !.pc = "done",
                   !.emitted = Append(@, Emit("finished_signal",
                                              IF r.full_text = <<>> THEN <<>>
                                              ELSE <<r.full_text[Len(r.full_text)]>>))]
    ELSE [r EXCEPT !.pc = "done"]

\* after the loop: the generator is exhausted
run_end(r) ==
    IF ~r.stopped
    THEN [r EXCEPT !.pc = "done",
                   !.emitted = Append(@, Emit("finished_signal", r.full_text))]
    ELSE [r EXCEPT !.pc = "done"]

\* the except clauses: the generator raised e
run_except(r, e) ==
    IF r.stopped THEN [r EXCEPT !.pc = "done"]
    ELSE IF e = "Exception"
         THEN [r EXCEPT !.pc = "done",
                        !.emitted = Append(@, Emit("error_occurred", "errors.llm_timeout"))]
         ELSE [r EXCEPT !.pc = "done",
                        !.emitted = Append(@, Emit("error_occurred",
                                                   _map_error_to_i18n_key(e)))]

\* a worker about to run: configured or not, with a generator that yields
\* n tokens and then ends in e
InitRun ==
    /\ Idle
    /\ splitter = NoStream
    /\ history = NoHistory
    /\ reader = NoReader
    /\ fetch = NoFetch
    /\ \E conf \in BOOLEAN, n \in 0..MaxTokens, e \in Endings :
          run = [pc |-> "start", configured |-> conf, stopped |-> FALSE,
                 observed |-> FALSE, yields |-> n, ends |-> e,
                 produced |-> 0, full_text |-> <<>>, emitted |-> <<>>]

SetRun(r) ==
    /\ run' = r
    /\ UNCHANGED <<coordvars, last, appvars, splitter, history, reader, fetch>>

RunBegins ==
    /\ run.pc = "start"
    /\ SetRun(run_begin(run))

\* the generator yields its next token
GeneratorYields ==
    /\ run.pc = "next"
    /\ run.produced < run.yields
    /\ SetRun([run EXCEPT !.pc = "token", !.produced = @ + 1])

RunToken ==
    /\ run.pc = "token"
    /\ SetRun(run_token(run))

GeneratorExhausted ==
    /\ run.pc = "next"
    /\ run.produced = run.yields
    /\ run.ends = "StopIteration"
    /\ SetRun(run_end(run))

GeneratorRaises ==
    /\ run.pc = "next"
    /\ run.produced = run.yields
    /\ run.ends # "StopIteration"
    /\ SetRun(run_except(run, run.ends))

\* GenerationWorker.stop(), from the GUI thread
StopRequested ==
    /\ run.pc # "none"
    /\ ~run.stopped
    /\ SetRun(stop(run))

NextRun ==
    \/ RunBegins
    \/ GeneratorYields
    \/ RunToken
    \/ GeneratorExhausted
    \/ GeneratorRaises
    \/ StopRequested

SpecRun == InitRun /\ [][NextRun]_vars

----------------------------------------------------------------------------
(* The conversation history of the refine chat: WriterWidget._refine_messages
   under the handlers that change it or send it. *)

_MAX_REFINE_MESSAGES == 20

\* a conversation holds at most MaxMessages numbered messages
MaxMessages == 22

Msg(role, n) == [role |-> role, n |-> n]

\* WriterService.build_refine_context: the system prompt alone
build_refine_context == <<Msg("system", 0)>>

\* the pruning in _send_refine_request: m[0] and m[-19:]
prune(m) ==
    IF Len(m) > _MAX_REFINE_MESSAGES
    THEN <<m[1]>> \o SubSeq(m, Len(m) - (_MAX_REFINE_MESSAGES - 1) + 1, Len(m))
    ELSE m

\* _send_refine_request: prune, give the history to a new worker, take the
\* exclusive slot and start the worker
_send_refine_request_history(c) ==
    [c EXCEPT !.messages = prune(@), !.busy = TRUE, !.exclusive = TRUE]

_start_translation_pipeline_history(c) ==
    [c EXCEPT !.messages = <<>>, !.next = 1, !.input_enabled = FALSE,
              !.translate_btn = FALSE, !.stop_btn = TRUE, !.drafting = TRUE]

\* finish_exclusive when the slot is held; exclusive_finished starts the
\* queued translation
finish_exclusive_history(c) ==
    IF ~c.exclusive THEN c
    ELSE IF c.queued
         THEN _start_translation_pipeline_history(
                  [c EXCEPT !.exclusive = FALSE, !.queued = FALSE])
         ELSE [c EXCEPT !.exclusive = FALSE]

_on_all_done_history(c) ==
    finish_exclusive_history([c EXCEPT !.translate_btn = TRUE, !.stop_btn = FALSE])

\* _on_stop; late: the completion or error of the stopped refine worker
\* was emitted before the worker saw the stop
_on_stop_history(c, late) ==
    _on_all_done_history([c EXCEPT !.drafting = FALSE, !.busy = @ /\ late])

\* _on_translate with the answer to the conflict dialog, if it is shown
_on_translate_history(c, cancel, late) ==
    IF c.exclusive
    THEN IF cancel
         THEN _start_translation_pipeline_history(_on_stop_history(c, late))
         ELSE [c EXCEPT !.queued = TRUE]
    ELSE _start_translation_pipeline_history(c)

\* _on_draft_finished, not draft-only: _start_refine_chat
_start_refine_chat_history(c) ==
    _send_refine_request_history(
        [c EXCEPT !.drafting = FALSE,
                  !.messages = Append(build_refine_context, Msg("user", c.next)),
                  !.next = @ + 1,
                  !.input_enabled = FALSE])

_on_refine_message_history(c) ==
    _send_refine_request_history(
        [c EXCEPT !.messages = Append(@, Msg("user", c.next)),
                  !.next = @ + 1,
                  !.input_enabled = FALSE])

_on_refine_finished_history(c) ==
    finish_exclusive_history(
        [c EXCEPT !.busy = FALSE,
                  !.messages = Append(@, Msg("assistant", c.next)),
                  !.next = @ + 1,
                  !.input_enabled = TRUE,
                  !.translate_btn = TRUE,
                  !.stop_btn = FALSE])

_on_refine_error_history(c) ==
    finish_exclusive_history([c EXCEPT !.busy = FALSE, !.input_enabled = TRUE])

set_context(c) == [c EXCEPT !.messages = <<>>, !.next = 1]

InitHist ==
    /\ Idle
    /\ splitter = NoStream
    /\ run = NoRun
    /\ history = NoHistory
    /\ reader = NoReader
    /\ fetch = NoFetch

SetHistory(h, c) ==
    /\ history' = [c EXCEPT !.h = h]
    /\ UNCHANGED <<coordvars, last, appvars, splitter, run, reader, fetch>>

\* the translate button, and the button pressed in the conflict dialog
HistTranslate ==
    \E cancel \in BOOLEAN, late \in BOOLEAN :
        /\ history.translate_btn
        /\ ~history.queued
        /\ (~cancel \/ ~history.busy) => ~late
        /\ ~history.exclusive => cancel
        /\ SetHistory("_on_translate", _on_translate_history(history, cancel, late))

HistStop ==
    \E late \in BOOLEAN :
        /\ history.stop_btn
        /\ ~history.busy => ~late
        /\ SetHistory("_on_stop", _on_stop_history(history, late))

\* the draft worker's completion reaches _on_draft_finished
HistDraftFinished ==
    /\ history.drafting
    /\ SetHistory("_on_draft_finished", _start_refine_chat_history(history))

\* the draft worker's error reaches _on_error
HistDraftError ==
    /\ history.drafting
    /\ SetHistory("_on_error",
                  _on_all_done_history([history EXCEPT !.drafting = FALSE]))

\* the user sends a message in the refine chat
HistRefineMessage ==
    /\ history.input_enabled
    /\ history.next <= MaxMessages
    /\ SetHistory("_on_refine_message", _on_refine_message_history(history))

HistRefineFinished ==
    /\ history.busy
    /\ history.next <= MaxMessages
    /\ SetHistory("_on_refine_finished", _on_refine_finished_history(history))

HistRefineError ==
    /\ history.busy
    /\ SetHistory("_on_refine_error", _on_refine_error_history(history))

\* the reader hands a comment or reply context to the writer; a second
\* call in a row changes nothing
HistSetContext ==
    /\ history.h # "set_context"
    /\ SetHistory("set_context", set_context(history))

NextHist ==
    \/ HistTranslate
    \/ HistStop
    \/ HistDraftFinished
    \/ HistDraftError
    \/ HistRefineMessage
    \/ HistRefineFinished
    \/ HistRefineError
    \/ HistSetContext

SpecHist == InitHist /\ [][NextHist]_vars

----------------------------------------------------------------------------
(* One call of PublicJSONAdapter._fetch_json.  An answer is what one
   session.get() does: a response with a status code, a 200 response with
   an HTML or a JSON body, or a requests.RequestException. *)

\* RateLimiter.max_retries is at most MaxRetries
MaxRetries == 3

Answers == {"429", "404", "403", "500", "html", "json", "RequestException"}

\* one pass of the for loop that retries a 429 answer without asking
\* whether retries are left
_fetch_json_attempt_always_backs_off(f, answer) ==
    LET attempt == Len(f.answers)
        g == [f EXCEPT !.answers = Append(@, answer)]
        retries_left == attempt < f.max_retries
    IN  CASE answer = "429" ->
                IF retries_left THEN g ELSE [g EXCEPT !.outcome = "RedditFetchError"]
          [] answer = "404" -> [g EXCEPT !.outcome = "SubredditNotFoundError"]
          [] answer = "403" -> [g EXCEPT !.outcome = "SubredditPrivateError"]
          [] answer \in {"500", "RequestException"} ->
                IF retries_left THEN g ELSE [g EXCEPT !.outcome = "RedditFetchError"]
          [] answer = "html" ->
                IF retries_left THEN g ELSE [g EXCEPT !.outcome = "RedditFetchError"]
          [] answer = "json" ->
                [g EXCEPT !.outcome = "returned", !.result = "json"]

\* lines 151-193, one pass of "for attempt in range(max_retries + 1)" with
\* the answer session.get gives in it; attempt counts from 0.  A status of
\* 500 makes raise_for_status raise an HTTPError, a RequestException; after
\* the last pass the loop is left and RedditFetchError raised.
_fetch_json_attempt(f, answer) ==
    LET attempt == Len(f.answers)
        g == [f EXCEPT !.answers = Append(@, answer)]
        retries_left == attempt < f.max_retries
    IN  CASE answer = "429" ->
                IF retries_left THEN g ELSE [g EXCEPT !.outcome = "RateLimitError"]
          [] answer = "404" -> [g EXCEPT !.outcome = "SubredditNotFoundError"]
          [] answer = "403" -> [g EXCEPT !.outcome = "SubredditPrivateError"]
          [] answer \in {"500", "RequestException"} ->
                IF retries_left THEN g ELSE [g EXCEPT !.outcome = "RedditFetchError"]
          [] answer = "html" ->
                IF retries_left THEN g ELSE [g EXCEPT !.outcome = "RedditFetchError"]
          [] answer = "json" ->
                [g EXCEPT !.outcome = "returned", !.result = "json"]

\* _fetch_json is called on an adapter with some max_retries
InitFetch ==
    /\ Idle
    /\ splitter = NoStream
    /\ run = NoRun
    /\ history = NoHistory
    /\ reader = NoReader
    /\ \E m \in 0..MaxRetries :
          fetch = [max_retries |-> m, answers |-> <<>>, outcome |-> "running",
                   result |-> None]

\* session.get answers and the pass of the loop runs to its end
FetchAttempt ==
    /\ fetch.outcome = "running"
    /\ \E answer \in Answers : fetch' = _fetch_json_attempt(fetch, answer)
    /\ UNCHANGED <<coordvars, last, appvars, splitter, run, history, reader>>

NextFetch == FetchAttempt

SpecFetch == InitFetch /\ [][NextFetch]_vars

----------------------------------------------------------------------------
(* ReaderWidget with its GenerationWorker threads, and a writer that takes
   and releases the exclusive slot.  A handler works on the coordinator's
   fields c, the call it made last, and the reader's fields rd. *)

ReaderState == [c |-> Coord, last |-> NoCall, rd |-> reader]

\* the do_start closures: the title closure returns without a worker when
\* _current_posts is empty; the comment closure stops the worker it replaces
do_start(s, role) ==
    LET stopped == IF role = "comment" /\ isRunning(s.rd.worker[role])
                   THEN [s EXCEPT !.rd.worker[role] = stop(@)]
                   ELSE s
    IN  IF role = "title" /\ ~s.rd.posts
        THEN s
        ELSE [stopped EXCEPT !.rd.worker[role] = start(NewWorker)]

\* the callbacks a coordinator call fires: the reader's closures start
\* workers, the writer's callback and the signals touch nothing of the reader
RECURSIVE RunReaderEffects(_, _)
RunReaderEffects(s, effects) ==
    IF effects = <<>> THEN s
    ELSE LET e == Head(effects)
             s1 == IF e.kind = "callback" /\ e.name \in {DoStart(role) : role \in ReaderRoles}
                   THEN do_start(s, CHOOSE role \in ReaderRoles :
                                        DoStart(role) = e.name)
                   ELSE s
         IN  RunReaderEffects(s1, Tail(effects))

ReaderCall(s, op, id, cb, r) ==
    RunReaderEffects([s EXCEPT !.c = r.c,
                               !.last = [op |-> op, id |-> id, cb |-> cb,
                                         ret |-> r.ret, effects |-> r.effects,
                                         pre |-> s.c]],
                     r.effects)

\* _start_title_translation, _generate_translation: stop the running worker
\* of the role, request_normal, do_start if granted;
\* _translate_next_comments_batch: request_normal, do_start if granted
reader_request(s, role) ==
    LET s1 == IF role # "comment" /\ isRunning(s.rd.worker[role])
              THEN [s EXCEPT !.rd.worker[role] = stop(@)]
              ELSE s
        s2 == ReaderCall(s1, "request_normal", TaskId(role), DoStart(role),
                         request_normal(s1.c, TaskId(role), DoStart(role)))
    IN  IF s2.last.ret = "True" THEN do_start(s2, role) ELSE s2

\* _fetch_posts: _current_posts = [], every running worker is stopped, a
\* fetch is started
_fetch_posts(s) ==
    [s EXCEPT !.rd.posts = FALSE,
              !.rd.fetching = TRUE,
              !.rd.worker = [r \in ReaderRoles |->
                                IF isRunning(s.rd.worker[r])
                                THEN stop(s.rd.worker[r])
                                ELSE s.rd.worker[r]]]

\* _on_posts_ready(posts); ko: the locale is ko_KR and a model is configured
_on_posts_ready(s, nonempty, ko) ==
    LET s1 == [s EXCEPT !.rd.posts = nonempty, !.rd.fetching = FALSE]
    IN  IF nonempty /\ ko THEN reader_request(s1, "title") ELSE s1

\* the slots of finished_signal and error_occurred of a reader worker
reader_task_ended(s, role) ==
    ReaderCall(s, "finish_normal", TaskId(role), None,
               finish_normal(s.c, TaskId(role)))

SetReader(s, h) ==
    /\ Len(s.c.pending_normal) <= MaxPending
    /\ Len(s.rd.inflight) <= MaxInflight
    /\ normal_tasks' = s.c.normal_tasks
    /\ exclusive_task' = s.c.exclusive_task
    /\ pending_exclusive' = s.c.pending_exclusive
    /\ pending_normal' = s.c.pending_normal
    /\ last' = s.last
    /\ reader' = [s.rd EXCEPT !.h = h]
    /\ UNCHANGED <<appvars, splitter, run, history, fetch>>

\* a subreddit is entered or the sort order changed
FetchPosts ==
    /\ SetReader(_fetch_posts(ReaderState), "_fetch_posts")

\* posts_ready of the fetch worker
PostsReady ==
    /\ reader.fetching
    /\ \E nonempty \in BOOLEAN, ko \in BOOLEAN :
          SetReader(_on_posts_ready(ReaderState, nonempty, ko), "_on_posts_ready")

\* a post with a body and no cached translation is selected
PostSelected ==
    /\ reader.posts
    /\ SetReader(reader_request(ReaderState, "gen"), "_on_post_selected")

\* the comments of the selected post arrived and some have a body
CommentsReady ==
    /\ reader.posts
    /\ SetReader(reader_request(ReaderState, "comment"),
                 "_translate_next_comments_batch")

\* GenerationWorker.run of a reader worker: the stream ends or raises
ReaderWorkerEmits ==
    \E role \in ReaderRoles, k \in Kinds :
        /\ isRunning(reader.worker[role])
        /\ ~reader.worker[role].stopped
        /\ SetReader([ReaderState EXCEPT !.rd.worker[role].st = "done",
                                         !.rd.inflight = Append(@, <<role, k>>)],
                     "none")

\* the thread sees _stopped and returns without a signal
ReaderWorkerExits ==
    \E role \in ReaderRoles :
        /\ isRunning(reader.worker[role])
        /\ reader.worker[role].stopped
        /\ SetReader([ReaderState EXCEPT !.rd.worker[role].st = "done"], "none")

\* the oldest queued signal reaches its slot
ReaderDeliver ==
    /\ reader.inflight # <<>>
    /\ SetReader(reader_task_ended([ReaderState EXCEPT !.rd.inflight = Tail(@)],
                                   Head(reader.inflight)[1]),
                 "reader_task_ended")

\* the writer asks for the exclusive slot
WriterRequest ==
    /\ exclusive_task = None
    /\ pending_exclusive = <<>>
    /\ SetReader(ReaderCall(ReaderState, "request_exclusive", "writer_refine",
                            "_do_start_refine",
                            request_exclusive(Coord, "writer_refine",
                                              "_do_start_refine")),
                 "_send_refine_request")

\* the writer's refine task ends
WriterFinish ==
    /\ exclusive_task # None
    /\ SetReader(ReaderCall(ReaderState, "finish_exclusive", None, None,
                            finish_exclusive(Coord)),
                 "_on_refine_finished")

NextReader ==
    \/ FetchPosts
    \/ PostsReady
    \/ PostSelected
    \/ CommentsReady
    \/ ReaderWorkerEmits
    \/ ReaderWorkerExits
    \/ ReaderDeliver
    \/ WriterRequest
    \/ WriterFinish

SpecReader == Init /\ [][NextReader]_vars

\* worker threads run on to their end, and the event loop delivers every
\* queued signal
SpecReaderLive ==
    /\ SpecReader
    /\ WF_vars(ReaderWorkerEmits)
    /\ WF_vars(ReaderWorkerExits)
    /\ WF_vars(ReaderDeliver)

----------------------------------------------------------------------------
(* Properties of the coordinator *)

\* the resume callbacks among the effects of a call, in the order fired
CallbacksIn(effects) == SelectSeq(effects, LAMBDA e : e.kind = "callback")

\* the signals among the effects of a call, in the order emitted
SignalsIn(effects) == SelectSeq(effects, LAMBDA e : e.kind = "signal")

\* C1 (P1, mutual exclusion): a request_normal(id, cb) call made while
\* exclusive_task is set does not add id to normal_tasks: it returns False
\* (queued), appends (id, cb) to the end of pending_normal and fires nothing.
C1_NormalQueuesWhileExclusive ==
    (last.op = "request_normal" /\ last.pre.exclusive_task # None)
        => /\ last.ret = "False"
           /\ normal_tasks = last.pre.normal_tasks
           /\ pending_normal = Append(last.pre.pending_normal, Pair(last.id, last.cb))
           /\ last.effects = <<>>
           /\ exclusive_task = last.pre.exclusive_task

C1_Witness ==
    /\ last.op = "request_normal"
    /\ last.pre.exclusive_task # None
    /\ Len(last.pre.pending_normal) = 1
    /\ last.id \notin normal_tasks

\* C2: an exclusive task runs with no normal task active: exclusive_task
\* set implies normal_tasks empty, in every reachable state.
C2_ExclusiveRunsAlone ==
    exclusive_task # None => normal_tasks = {}

C2_Witness ==
    /\ exclusive_task # None
    /\ last.op = "request_exclusive"
    /\ last.ret = "True"

\* C3 (P3, synchronous handoff): finish_normal of the only active normal
\* task while an exclusive request is pending leaves normal_tasks empty,
\* exclusive_task = the pending id, pending_exclusive cleared, and has invoked
\* the pending resume callback exactly once; every normal request made next
\* is queued.
C3_SynchronousHandoff ==
    (/\ last.op = "finish_normal"
     /\ last.pre.normal_tasks = {last.id}
     /\ last.pre.pending_exclusive # <<>>)
        => /\ normal_tasks = {}
           /\ exclusive_task = last.pre.pending_exclusive[1].id
           /\ pending_exclusive = <<>>
           /\ CallbacksIn(last.effects) = <<Call(last.pre.pending_exclusive[1].cb)>>
           /\ \A id \in NormalIds, cb \in Callbacks :
                 LET r == request_normal(Coord, id, cb)
                 IN  r.ret = "False" /\ r.c.normal_tasks = {}

C3_Witness ==
    /\ last.op = "finish_normal"
    /\ last.pre.normal_tasks = {last.id}
    /\ last.pre.pending_exclusive # <<>>
    /\ exclusive_task = "X"

\* C4 (P2, no starvation on drain): when finish_exclusive returns,
\* exclusive_task is unset, pending_normal is empty, every id that was queued
\* is in normal_tasks and the queued resume callbacks were each invoked once,
\* in enqueue (FIFO) order.
C4_DrainOnFinish ==
    last.op = "finish_exclusive"
        => /\ exclusive_task = None
           /\ pending_normal = <<>>
           /\ IdsOf(last.pre.pending_normal) \subseteq normal_tasks
           /\ CallbacksIn(last.effects) = CallsOf(last.pre.pending_normal)

C4_Witness ==
    /\ last.op = "finish_exclusive"
    /\ Len(last.pre.pending_normal) = 2
    /\ last.pre.pending_normal[1].cb # last.pre.pending_normal[2].cb
    /\ last.pre.pending_normal[1].id # last.pre.pending_normal[2].id

\* C8 (I3): pending_normal is non-empty only while exclusive_task is set.
C8_PendingNormalOnlyWhileExclusive ==
    pending_normal # <<>> => exclusive_task # None

C8_Witness ==
    /\ last.op = "cancel_exclusive"
    /\ last.pre.pending_normal # <<>>
    /\ exclusive_task = None
    /\ pending_normal = <<>>

\* C9 (P4, cancel-pending is silent): cancel_exclusive with no active
\* exclusive task and a pending one clears pending_exclusive, leaves
\* normal_tasks, pending_normal and exclusive_task as they were, emits no
\* signal and invokes no callback.
C9_CancelPendingIsSilent ==
    (/\ last.op = "cancel_exclusive"
     /\ last.pre.exclusive_task = None
     /\ last.pre.pending_exclusive # <<>>)
        => /\ pending_exclusive = <<>>
           /\ normal_tasks = last.pre.normal_tasks
           /\ pending_normal = last.pre.pending_normal
           /\ exclusive_task = None
           /\ last.effects = <<>>

C9_Witness ==
    /\ last.op = "cancel_exclusive"
    /\ last.pre.exclusive_task = None
    /\ last.pre.pending_exclusive # <<>>
    /\ last.pre.normal_tasks = NormalIds

\* the positions of effects of kind k in a sequence of effects
Positions(effects, k) == {i \in 1..Len(effects) : effects[i].kind = k}

\* C11 (ordering b): when an exclusive task ends (finish_exclusive, or
\* cancel_exclusive of an active task), every queued normal request is added
\* to normal_tasks and resumed in enqueue order before any normal request
\* arriving after the end is granted, a request made by a notified
\* 'exclusive ended' observer included.
C11_NoQueueJumping ==
    (/\ last.op \in {"finish_exclusive", "cancel_exclusive"}
     /\ (last.op = "cancel_exclusive" => Truthy(last.pre.exclusive_task)))
        => /\ IdsOf(last.pre.pending_normal) \subseteq normal_tasks
           /\ CallbacksIn(last.effects) = CallsOf(last.pre.pending_normal)
           /\ \A i \in Positions(last.effects, "granted") :
                 \A j \in Positions(last.effects, "callback") : j < i

\* C33 (request_exclusive): the call returns True exactly when normal_tasks
\* was empty and exclusive_task unset; it then sets exclusive_task to the
\* id, emits exclusive_started once and calls no callback; otherwise it
\* replaces pending_exclusive by (id, callback), fires nothing and leaves
\* normal_tasks, exclusive_task and pending_normal as they were.
C33_RequestExclusive ==
    last.op = "request_exclusive"
        => /\ (last.ret = "True")
                 <=> (last.pre.normal_tasks = {} /\ last.pre.exclusive_task = None)
           /\ last.ret \in {"True", "False"}
           /\ last.ret = "True"
                 => /\ exclusive_task = last.id
                    /\ last.effects = <<Signal("exclusive_started")>>
                    /\ normal_tasks = last.pre.normal_tasks
                    /\ pending_normal = last.pre.pending_normal
                    /\ pending_exclusive = last.pre.pending_exclusive
           /\ last.ret = "False"
                 => /\ pending_exclusive = <<Pair(last.id, last.cb)>>
                    /\ last.effects = <<>>
                    /\ normal_tasks = last.pre.normal_tasks
                    /\ exclusive_task = last.pre.exclusive_task
                    /\ pending_normal = last.pre.pending_normal

\* a request queued behind two normal tasks replaces a pending request with
\* another id and another callback
C33_Witness ==
    /\ last.op = "request_exclusive"
    /\ last.ret = "False"
    /\ last.pre.normal_tasks = NormalIds
    /\ last.pre.pending_exclusive # <<>>
    /\ last.pre.pending_exclusive[1].id # last.id
    /\ last.pre.pending_exclusive[1].cb # last.cb

\* C34 (cancel of an active task is finish): in every state with an
\* exclusive task active, whatever its id, cancel_exclusive gives the state,
\* the signals and the callbacks, in order, that finish_exclusive gives.
C34_CancelActiveIsFinish ==
    is_exclusive_active(Coord) => cancel_exclusive(Coord) = finish_exclusive(Coord)

\* C35 (no idle pending exclusive): whenever normal_tasks is empty and
\* exclusive_task is unset, pending_exclusive is empty.
C35_NoIdlePendingExclusive ==
    (normal_tasks = {} /\ exclusive_task = None) => pending_exclusive = <<>>

\* the signals of a call read from a moment at which an exclusive task was
\* open or not: each exclusive_started finds none open, each
\* exclusive_finished finds one open; the value is <<alternating, open after>>
RECURSIVE Alternates(_, _)
Alternates(sigs, open) ==
    IF sigs = <<>> THEN <<TRUE, open>>
    ELSE IF Head(sigs).name = "exclusive_started"
         THEN IF open THEN <<FALSE, open>> ELSE Alternates(Tail(sigs), TRUE)
         ELSE IF open THEN Alternates(Tail(sigs), FALSE) ELSE <<FALSE, open>>

\* C40 (lifecycle events alternate): the signals of every coordinator call
\* continue the alternation started, ended, started, ...; an exclusive task
\* is open, that is started and not yet ended, exactly while exclusive_task
\* is set.
C40_LifecycleAlternates ==
    LET a == Alternates(SignalsIn(last.effects), last.pre.exclusive_task # None)
    IN  last.op # "none" => (a[1] /\ a[2] = (exclusive_task # None))

----------------------------------------------------------------------------
(* Properties of the coordinator under its callers *)

\* C5 (P7, slot release on any terminal event): once the writer has handled
\* the completion event or an error event (of any of the three kinds) of the
\* refine task, exclusive_task is unset, no normal request is left queued,
\* and every normal request that was queued behind the refine task has its
\* id in normal_tasks and had its callback invoked, in order.
C5_SlotReleasedOnRefineEnd ==
    handler.name \in {"_on_refine_finished", "_on_refine_error"}
        => /\ exclusive_task = None
           /\ pending_normal = <<>>
           /\ last.op \in {"finish_exclusive", "none"}
           /\ last.op = "finish_exclusive"
                => /\ IdsOf(last.pre.pending_normal) \subseteq normal_tasks
                   /\ CallbacksIn(last.effects) = CallsOf(last.pre.pending_normal)

C5_Witness ==
    /\ handler.name = "_on_refine_error"
    /\ handler.arg = "errors.llm_timeout"
    /\ last.op = "finish_exclusive"
    /\ last.pre.exclusive_task = "writer_refine"
    /\ Len(last.pre.pending_normal) = 2
    /\ Cardinality(normal_tasks) = 2

\* C6 (I4): at most one exclusive task is active or pending: exclusive_task
\* and pending_exclusive are never both set, and no exclusive request is
\* queued while one is already active or pending.
C6_AtMostOneExclusive ==
    /\ ~(exclusive_task # None /\ pending_exclusive # <<>>)
    /\ (last.op = "request_exclusive" /\ last.ret = "False")
          => /\ last.pre.exclusive_task = None
             /\ last.pre.pending_exclusive = <<>>

\* C7 (I2): pending_exclusive is set only while normal_tasks is non-empty.
C7_PendingExclusiveOnlyWhileNormal ==
    pending_exclusive # <<>> => normal_tasks # {}

\* C10: a queued exclusive request is never discarded by another
\* request_exclusive call: no request_exclusive call is made while a queued
\* request is still in pending_exclusive.
C10_QueuedExclusiveNeverDiscarded ==
    last.op = "request_exclusive" => last.pre.pending_exclusive = <<>>

\* C12 (writer preference): once an exclusive request is pending, a normal
\* request arriving afterwards is not granted ahead of it: its id does not
\* enter normal_tasks before the pending exclusive request has been granted.
C12_WriterPreference ==
    (last.op = "request_normal" /\ last.pre.pending_exclusive # <<>>)
        => /\ last.ret = "False"
           /\ normal_tasks = last.pre.normal_tasks

\* C13: stop() issued while the refine stage holds the exclusive slot
\* releases it: when _on_stop returns exclusive_task is unset,
\* exclusive_finished was emitted, and every normal task queued behind the
\* refine stage is in normal_tasks and had its callback invoked, in order.
C13_StopReleasesSlot ==
    handler.name = "_on_stop"
        => /\ exclusive_task = None
           /\ pending_normal = <<>>
           /\ last.op \in {"finish_exclusive", "none"}
           /\ last.op = "finish_exclusive"
                => /\ SignalsIn(last.effects) = <<Signal("exclusive_finished")>>
                   /\ IdsOf(last.pre.pending_normal) \subseteq normal_tasks
                   /\ CallbacksIn(last.effects) = CallsOf(last.pre.pending_normal)

C13_Witness ==
    /\ handler.name = "_on_stop"
    /\ last.op = "finish_exclusive"
    /\ last.pre.exclusive_task = "writer_refine"
    /\ Len(last.pre.pending_normal) = 2
    /\ worker["refine"].stopped
    /\ Cardinality(normal_tasks) = 2

\* C14: stop() cancels the pipeline run: a refine stage still queued for the
\* exclusive slot when _on_stop is called is removed from the coordinator
\* (so that it is not started when the normal tasks later drain).
C14_StopRemovesQueuedRefine ==
    handler.name = "_on_stop" => pending_exclusive = <<>>

\* C15 (conflict policy): a Translate requested while an exclusive refine
\* stage is active never starts or queues silently: it opens the conflict
\* dialog and does nothing else. With the 'cancel' choice the exclusive slot
\* is released before the new pipeline starts. With the 'wait' choice the
\* pipeline is not started at once but exactly once, on the next
\* exclusive_finished notification, after which no one-shot observer is
\* registered any more (also when 'wait' was chosen several times) and later
\* notifications start nothing.
C15_TranslateWhileActive ==
    (handler'.name = "_on_translate" /\ exclusive_task # None)
        => /\ dialog'
           /\ worker' = worker
           /\ pending_translate_text' = pending_translate_text
           /\ observers' = observers
           /\ UNCHANGED coordvars

C15_CancelChoice ==
    (handler'.name = "_show_polish_conflict_dialog" /\ observers' <= observers)
        => /\ exclusive_task' = None
           /\ isRunning(worker'["draft"])
           /\ ~worker'["draft"].stopped
           /\ ~translate_btn'

C15_WaitChoice ==
    (handler'.name = "_show_polish_conflict_dialog" /\ observers' > observers)
        => /\ pending_translate_text'
           /\ observers' = observers + 1
           /\ worker' = worker
           /\ UNCHANGED coordvars

C15_Notified ==
    (last'.op = "finish_exclusive" /\ observers > 0)
        => /\ observers' = 0
           /\ ~pending_translate_text'
           /\ isRunning(worker'["draft"])
           /\ ~worker'["draft"].stopped

C15_OneShot ==
    (/\ last'.op = "finish_exclusive"
     /\ observers = 0
     /\ handler'.name # "_show_polish_conflict_dialog")
        => worker'["draft"] \in {worker["draft"], stop(worker["draft"])}

C16_DraftHoldsNormalSlot ==
    (isRunning(worker["draft"]) /\ ~worker["draft"].stopped)
        => /\ normal_tasks \ {TaskId(r) : r \in ReaderRoles} # {}
           /\ exclusive_task = None

\* C29 (restartable after an error): when the error of the draft or of the
\* refine worker has been handled, and no translation was queued behind the
\* exclusive task, the writer holds no exclusive slot and the translate
\* button is enabled.
C29_IdleAfterError ==
    [][(handler'.name \in {"_on_error", "_on_refine_error"}
        /\ ~pending_translate_text)
          => /\ translate_btn'
             /\ exclusive_task' # "writer_refine"]_vars

\* C30 (refine runs alone): while the refine worker runs and was not told
\* to stop, no draft worker runs that was not told to stop.
C30_RefineRunsAlone ==
    (isRunning(worker["refine"]) /\ ~worker["refine"].stopped)
        => ~(isRunning(worker["draft"]) /\ ~worker["draft"].stopped)

\* a step in which the refine worker is started: _do_start_refine ran on a
\* worker that was not running, either in _send_refine_request after a grant
\* or as the callback of a promoted request
RefineStartedStep ==
    /\ worker'["refine"].st = "running"
    /\ \/ worker["refine"].st # "running"
       \/ /\ handler'.name \in {"_on_draft_finished", "_on_refine_message"}
          /\ last'.op = "request_exclusive"

\* C36 (refine starts inside its slot): whenever the refine worker is
\* started, for a first turn or a follow-up, by an immediate grant or by the
\* promotion of the queued request, the handler that started it ends with
\* exclusive_task = "writer_refine" and normal_tasks empty.
C36_RefineStartsInSlot ==
    [][RefineStartedStep
          => /\ exclusive_task' = "writer_refine"
             /\ normal_tasks' = {}]_vars

\* the queued request was promoted by the end of the last reader task and
\* its callback started the worker
C36_Witness ==
    /\ handler.name = "reader_task_ended"
    /\ last.op = "finish_normal"
    /\ last.pre.normal_tasks # {}
    /\ last.effects = <<Signal("exclusive_started"), Call("_do_start_refine")>>
    /\ worker["refine"].st = "running"
    /\ exclusive_task = "writer_refine"
    /\ normal_tasks = {}

\* the worker that emitted the signal at the head of the event queue is no
\* longer the one its attribute holds: _start_draft or _send_refine_request
\* replaced it after it had ended
Superseded(r) == worker[r].st # "done" \/ worker[r].stopped

\* the step that delivers the signal at the head of the event queue
DeliverStep ==
    /\ inflight # <<>>
    /\ inflight' = Tail(inflight)
    /\ handler'.name = SlotName(Head(inflight)[1], Head(inflight)[2])

\* C38 (stale events are harmless): the completion or error signal of a
\* worker that was superseded before the signal is delivered leaves
\* normal_tasks, exclusive_task and both queues as they were.
C38_StaleEventLeavesCoordinator ==
    [][(DeliverStep /\ Superseded(Head(inflight)[1]))
          => UNCHANGED coordvars]_vars

----------------------------------------------------------------------------
(* Properties of the token splitter *)

\* what the two sinks hold: the final output box, and the chat bubble of
\* the response (nothing when there is no bubble)
TranslationSink == splitter.p.final_output
CommentarySink ==
    IF splitter.p.bubble = <<>> THEN <<>> ELSE splitter.p.bubble[1]

\* the text before and after the delimiter
Prefix(t) == SubSeq(t, 1, index(t))
Suffix(t) == SubSeq(t, index(t) + 4, Len(t))

\* a text without one line break at its end / at its start
TrimTrailingBreak(t) ==
    IF t # <<>> /\ t[Len(t)] = "\n" THEN SubSeq(t, 1, Len(t) - 1) ELSE t
TrimLeadingBreak(t) ==
    IF t # <<>> /\ t[1] = "\n" THEN Tail(t) ELSE t

\* the sinks after the whole text was delivered as one fragment
WholeText(t) ==
    on_refine_finished_text(_on_refine_token(StartRefine(TRUE), t), t)

\* C17 (P5, splitter round trip): a text with exactly one occurrence of
\* "%%%", fed one character at a time in first-turn mode and completed,
\* leaves the text before the delimiter on the translation sink and the
\* text after it on the commentary sink, less the single line break next
\* to the delimiter on each side.
C17_SplitterRoundTrip ==
    (/\ splitter.done
     /\ splitter.unit
     /\ splitter.p.is_first_refine
     /\ Cardinality(Occurrences(splitter.text)) = 1)
        => /\ TranslationSink = TrimTrailingBreak(Prefix(splitter.text))
           /\ CommentarySink = TrimLeadingBreak(Suffix(splitter.text))

\* C18: the splitter's output does not depend on the fragment boundaries:
\* for a text with exactly one occurrence of "%%%", every way of cutting it
\* into fragments leaves the sinks as the delivery in one fragment does.
C18_ChunkingIndependent ==
    (/\ splitter.done
     /\ splitter.p.is_first_refine
     /\ Cardinality(Occurrences(splitter.text)) = 1)
        => /\ TranslationSink = WholeText(splitter.text).final_output
           /\ splitter.p.bubble = WholeText(splitter.text).bubble

\* C19 (P6, splitter degradation): a text without "%%%", fed in first-turn
\* mode under any cutting and completed, is on the translation sink in
\* full and unchanged, and the commentary sink received nothing.
C19_NoDelimiterAllTranslation ==
    (/\ splitter.done
     /\ splitter.p.is_first_refine
     /\ ~Contains(splitter.text))
        => /\ TranslationSink = splitter.text
           /\ splitter.p.bubble = <<>>
           /\ splitter.p.chat_streamed_content = <<>>

\* a text of full length without delimiter, fed in fragments of several
\* sizes, with line breaks at both ends
C19_Witness ==
    /\ splitter.done
    /\ splitter.p.is_first_refine
    /\ ~splitter.unit
    /\ ~Contains(splitter.text)
    /\ Len(splitter.text) = MaxText
    /\ splitter.text[1] = "\n"
    /\ splitter.text[MaxText] = "\n"
    /\ \E i \in 1..(MaxText - 1) :
          splitter.text[i] = "%" /\ splitter.text[i + 1] = "%"

\* the steps of a turn: a token reaches _on_refine_token, the completion
\* reaches _on_refine_finished, _on_apply runs
TokenStep == splitter'.pos # splitter.pos
FinishedStep == splitter'.done # splitter.done
ApplyStep ==
    /\ splitter'.h = "_on_apply"
    /\ splitter'.pos = splitter.pos
    /\ splitter'.done = splitter.done

\* the token delivered by a token step
TokenOf == SubSeq(splitter.text, splitter.pos + 1, splitter'.pos)

\* C25 (follow-up turns are not routed): in a follow-up turn a token event
\* appends the token to the chat bubble and to the accumulated commentary,
\* and neither a token event nor the completion event changes the final
\* output or the splitter buffer, with or without "%%%" in the response.
C25_FollowUpStep ==
    (~splitter.p.is_first_refine /\ (TokenStep \/ FinishedStep))
        => /\ splitter'.p.final_output = splitter.p.final_output
           /\ splitter'.p.token_buffer = splitter.p.token_buffer
           /\ TokenStep =>
                 /\ splitter'.p.chat_streamed_content
                        = splitter.p.chat_streamed_content \o TokenOf
                 /\ splitter'.p.bubble = <<splitter.p.bubble[1] \o TokenOf>>
C25_FollowUpNoRouting == [][C25_FollowUpStep]_vars

\* a completed follow-up of full length with the delimiter in it: all of it
\* went to the commentary and the final output is what it was
C25_Witness ==
    /\ ~splitter.p.is_first_refine
    /\ splitter.done
    /\ splitter.h = "_on_refine_finished"
    /\ Len(splitter.text) = MaxText
    /\ Contains(splitter.text)
    /\ splitter.p.chat_streamed_content = splitter.text
    /\ splitter.p.final_output = <<"a">>
    /\ splitter.p.token_buffer = <<>>

\* the suggestion a completed follow-up response makes: the text before
\* "%%%" without the white space at its ends
Suggested(t) == strip(Prefix(t))

\* the pending suggestion as a text, None read as the empty text
PendingText(p) ==
    IF p.pending_translation = <<>> THEN <<>> ELSE p.pending_translation[1]

\* the final output changes only by _on_apply, which writes the pending
\* suggestion there and clears it, and does nothing when none is pending
AppliedOnlyByApply ==
    /\ (~splitter.p.is_first_refine /\ (TokenStep \/ FinishedStep))
          => splitter'.p.final_output = splitter.p.final_output
    /\ (~splitter.p.is_first_refine /\ TokenStep)
          => splitter'.p.pending_translation = splitter.p.pending_translation
    /\ ApplyStep =>
          IF splitter.p.pending_translation # <<>>
          THEN /\ splitter'.p.final_output = splitter.p.pending_translation[1]
               /\ splitter'.p.pending_translation = <<>>
          ELSE splitter'.p = splitter.p

\* C26 as stated: the completion of a follow-up response with "%%%" in it
\* leaves the trimmed text before the delimiter as the pending suggestion,
\* and the final output changes only by apply.
C26_SuggestionAsStated ==
    [][/\ (~splitter.p.is_first_refine /\ FinishedStep /\ Contains(splitter.text))
            => PendingText(splitter'.p) = Suggested(splitter.text)
       /\ AppliedOnlyByApply]_vars

\* C26 (suggestion, never auto-applied): the completion of a follow-up
\* response with "%%%" in it and a non-empty trimmed text before it leaves
\* that text as the pending suggestion; any other completion of a follow-up
\* leaves the pending suggestion as it was; the final output changes only by
\* apply, which writes the pending suggestion there and clears it, and does
\* nothing when no suggestion is pending.
C26_SuggestionNeverAutoApplied ==
    [][/\ (~splitter.p.is_first_refine /\ FinishedStep)
            => splitter'.p.pending_translation
                   = IF Contains(splitter.text) /\ Suggested(splitter.text) # <<>>
                     THEN <<Suggested(splitter.text)>>
                     ELSE splitter.p.pending_translation
       /\ AppliedOnlyByApply]_vars

\* the suggestion of a completed follow-up, three characters long, was
\* applied: it is the final output and no suggestion is pending
C26_Witness ==
    /\ ~splitter.p.is_first_refine
    /\ splitter.done
    /\ splitter.h = "_on_apply"
    /\ Contains(splitter.text)
    /\ Len(Suggested(splitter.text)) = 3
    /\ splitter.p.final_output = Suggested(splitter.text)
    /\ splitter.p.pending_translation = <<>>
    /\ splitter.p.notices >= 1

\* a is the beginning of b
IsPrefix(a, b) == Len(a) <= Len(b) /\ a = SubSeq(b, 1, Len(a))

\* a is b without some white space at its start
IsLeftTrimmed(a, b) ==
    \E k \in 0..Len(b) :
        /\ a = SubSeq(b, k + 1, Len(b))
        /\ \A i \in 1..k : isspace(b[i])

\* C31 (only the first delimiter counts): for a first response with "%%%"
\* again after its first occurrence, the final output never holds anything
\* but text from before the first occurrence, and once the response is
\* complete the commentary is all the text after the first occurrence, its
\* later "%%%" included, less white space at its ends.
C31_FirstDelimiterOnly ==
    (/\ splitter.p.is_first_refine
     /\ Contains(splitter.text)
     /\ Contains(Suffix(splitter.text)))
        => /\ IsPrefix(TranslationSink, Prefix(splitter.text))
           /\ \E n \in 0..Len(Suffix(splitter.text)) :
                  IsLeftTrimmed(splitter.p.chat_streamed_content,
                                SubSeq(Suffix(splitter.text), 1, n))
           /\ splitter.done
                 => /\ IsLeftTrimmed(splitter.p.chat_streamed_content,
                                     Suffix(splitter.text))
                    /\ Contains(splitter.p.chat_streamed_content)
                    /\ CommentarySink = strip(Suffix(splitter.text))

\* the response "a%%%\n%%%" delivered in several fragments and completed
C31_Witness ==
    /\ splitter.p.is_first_refine
    /\ splitter.done
    /\ ~splitter.unit
    /\ splitter.text = <<"a", "%", "%", "%", "\n", "%", "%", "%">>
                          \/ splitter.text = <<"a", "%", "%", "%", "%", "%", "%">>
    /\ TranslationSink = <<"a">>
    /\ CommentarySink = Delimiter

\* the text received so far
Received == SubSeq(splitter.text, 1, splitter.pos)

\* C37 (conservation): while a first response is being received and no "%%%"
\* has been seen, the final output followed by the buffer is the text
\* received so far, the buffer holds at most 5 characters, and the final
\* output ends before the first "%%%" of the whole response.
C37_Conservation ==
    (/\ splitter.p.is_first_refine
     /\ ~splitter.p.refine_started
     /\ ~splitter.done)
        => /\ TranslationSink \o splitter.p.token_buffer = Received
           /\ Len(splitter.p.token_buffer) <= 5
           /\ ~Contains(Received)
           /\ Contains(splitter.text)
                 => Len(TranslationSink) <= index(splitter.text)

\* "aaaa%%" has been received, "aaa" written and "a%%" held back, and the
\* next character completes the delimiter
C37_Witness ==
    /\ splitter.p.is_first_refine
    /\ ~splitter.p.refine_started
    /\ ~splitter.done
    /\ splitter.h = "_on_refine_token"
    /\ splitter.text = <<"a", "a", "a", "a", "%", "%", "%">>
    /\ splitter.pos = 6
    /\ TranslationSink = <<"a", "a", "a">>
    /\ splitter.p.token_buffer = <<"a", "%", "%">>

----------------------------------------------------------------------------
(* Properties of GenerationWorker.run *)

\* the token_received signals of tokens 1..n, in order
TokensUpTo(n) == [i \in 1..n |-> Emit("token_received", i)]

\* C20 (stop): when run() sees the stop request at a token boundary it ends
\* at once: the token just yielded and all later ones are not forwarded
\* (exactly the tokens before it were), and neither finished_signal nor
\* error_occurred is emitted for the run.
C20_StopEndsRunSilently ==
    run.observed
        => /\ run.pc = "done"
           /\ run.emitted = TokensUpTo(run.produced - 1)

\* the stop was seen at the second of three tokens of a generator that
\* would have raised afterwards
C20_Witness ==
    /\ run.observed
    /\ run.produced = 2
    /\ run.yields = MaxTokens
    /\ run.ends = "LLMTimeoutError"
    /\ Len(run.emitted) = 1

\* a completion or an error event
Terminal(e) == e.sig \in {"finished_signal", "error_occurred"}

\* C21 (one terminal event): whatever the interleaving of stop() with the
\* run, a completion or error event is the last event the run emits: no
\* second terminal event and no token event follows it.
C21_AtMostOneTerminalEvent ==
    \A i \in 1..Len(run.emitted) :
        Terminal(run.emitted[i]) => i = Len(run.emitted)

\* a run that forwarded all its tokens and completed, with stop() called
\* only after the completion event
C21_Witness ==
    /\ run.pc = "done"
    /\ run.stopped
    /\ run.yields = MaxTokens
    /\ Len(run.emitted) = MaxTokens + 1
    /\ run.emitted[MaxTokens + 1].sig = "finished_signal"

\* the generator of a configured run has raised and run() has handled it
Failed ==
    /\ run.pc = "done"
    /\ run.configured
    /\ ~run.observed
    /\ run.ends # "StopIteration"

\* the error events among the events of the run
ErrorsIn(emitted) == SelectSeq(emitted, LAMBDA e : e.sig = "error_occurred")

\* the failure kind the specification assigns to a failure
FailureKind(e) ==
    CASE e = "OllamaNotRunningError" -> "errors.ollama_not_running"
      [] e = "ModelNotFoundError" -> "errors.model_not_found"
      [] e = "LLMTimeoutError" -> "errors.llm_timeout"
      [] OTHER -> "errors.ollama_not_running"

\* C22 (failure reported): once the generator of a run has raised, the run
\* has emitted exactly one error event, and it carries the failure kind of
\* the exception.
C22_FailureReportedOnce ==
    Failed => /\ Len(ErrorsIn(run.emitted)) = 1
              /\ ErrorsIn(run.emitted)[1].arg = FailureKind(run.ends)

\* C23 (failure mapping): an error event of a configured run carries the
\* kind of the exception the generator raised: its own kind for the three
\* named failures, service-unavailable for any other exception.
C23_FailureMapping ==
    \A i \in 1..Len(run.emitted) :
        (run.configured /\ run.emitted[i].sig = "error_occurred")
            => run.emitted[i].arg = FailureKind(run.ends)

\* C24 (order and completion text): a configured run that was not stopped
\* and whose generator ended without raising has emitted one token event per
\* token, in the order the generator yielded them, followed by one completion
\* event that carries the tokens 1..yields in that order.
C24_TokensInOrderThenFullText ==
    (run.pc = "done" /\ run.configured /\ ~run.stopped
     /\ run.ends = "StopIteration")
        => /\ Len(run.emitted) = run.yields + 1
           /\ \A i \in 1..run.yields :
                 /\ run.emitted[i].sig = "token_received"
                 /\ run.emitted[i].arg = i
           /\ run.emitted[run.yields + 1].sig = "finished_signal"
           /\ run.emitted[run.yields + 1].arg = [i \in 1..run.yields |-> i]

\* a completed run of three tokens
C24_Witness ==
    /\ run.pc = "done"
    /\ ~run.stopped
    /\ run.ends = "StopIteration"
    /\ run.yields = MaxTokens
    /\ Len(run.emitted) = MaxTokens + 1
    /\ run.emitted[MaxTokens + 1].arg = [i \in 1..MaxTokens |-> i]

----------------------------------------------------------------------------
(* Properties of the conversation history *)

\* the latest step ran _send_refine_request: history.messages is the
\* history it gave to the refine worker
Sent == history.h \in {"_on_draft_finished", "_on_refine_message"}

\* C27 (system message first): every history sent to the refine stage starts
\* with the system message, and a send that prunes keeps the first message
\* followed by the 19 most recent ones in their order.
C27_SystemMessageFirst ==
    /\ [](Sent => history.messages[1].role = "system")
    /\ [][(history'.h = "_on_refine_message"
           /\ history' # history
           /\ Len(history.messages) >= _MAX_REFINE_MESSAGES)
             => LET m == Append(history.messages, Msg("user", history.next))
                IN  history'.messages
                      = <<m[1]>> \o SubSeq(m, Len(m) - 18, Len(m))]_vars

\* C28 (history cap): the history never holds more than 20 messages.
C28_HistoryCapped ==
    Len(history.messages) <= _MAX_REFINE_MESSAGES

----------------------------------------------------------------------------
(* Properties of PublicJSONAdapter._fetch_json *)

\* the number of session.get calls made so far
Attempts == Len(fetch.answers)

\* the answer to the latest attempt
LastAnswer == fetch.answers[Attempts]

\* C32 (bounded retries): _fetch_json makes at most max_retries + 1
\* attempts and has ended after the last of them; when every answer was 429
\* it goes on while retries are left and raises RateLimitError at attempt
\* max_retries + 1; a 404 or 403 answer ends the call at once with
\* SubredditNotFoundError or SubredditPrivateError; a JSON answer, after an
\* HTML answer or not, ends it with the JSON result.
C32_FetchJsonBounded ==
    /\ Attempts <= fetch.max_retries + 1
    /\ Attempts = fetch.max_retries + 1 => fetch.outcome # "running"
    /\ (Attempts > 0 /\ \A i \in 1..Attempts : fetch.answers[i] = "429")
          => IF Attempts = fetch.max_retries + 1
             THEN fetch.outcome = "RateLimitError"
             ELSE fetch.outcome = "running"
    /\ fetch.outcome = "RateLimitError"
          => LastAnswer = "429" /\ Attempts = fetch.max_retries + 1
    /\ (Attempts > 0 /\ LastAnswer = "404")
          => fetch.outcome = "SubredditNotFoundError"
    /\ (Attempts > 0 /\ LastAnswer = "403")
          => fetch.outcome = "SubredditPrivateError"
    /\ (Attempts > 0 /\ LastAnswer = "json")
          => fetch.outcome = "returned" /\ fetch.result = "json"

\* with max_retries = 2, two 429 answers were retried and the third ended
\* the call
C32_Witness ==
    /\ fetch.max_retries = 2
    /\ fetch.answers = <<"429", "429", "429">>
    /\ fetch.outcome = "RateLimitError"

----------------------------------------------------------------------------
(* Properties of the reader's tasks *)

\* C39 (normal slots are released): an id of a reader task that is in
\* normal_tasks is eventually removed from it, whether the task's worker
\* completes, fails, is stopped or is never started.
C39_NormalSlotReleased ==
    \A role \in ReaderRoles :
        (TaskId(role) \in normal_tasks) ~> (TaskId(role) \notin normal_tasks)

====
